---- MODULE Spec2Model ----
(***************************************************************************)
(* Model of the customer synchronisation service (src/app.ts): the         *)
(* anonymizer, the pointer file, the lock file, the Pursuer (forward       *)
(* syncer), the Updater (reconciler) and the fullReindex run mode.         *)
(*                                                                         *)
(* Time is in milliseconds (Date.getTime()).  A collection is a set of     *)
(* documents with unique _id; a "maybe" value (this.pointer, findOne's     *)
(* result, the .pointer file) is a sequence of length 0 or 1.              *)
(***************************************************************************)
EXTENDS Integers, Sequences, FiniteSets, TLC

\* ---------------------------------------------------------------- bounds
MaxRecs == 2        \* identity ids are 1..MaxRecs
MaxTime == 2        \* creation timestamps are 1..MaxTime
MaxWindow == 2      \* BUFFER_SIZE, hence Pursuer.window, is drawn from 1..MaxWindow
MaxTicks == 2       \* timer callbacks of Pursuer.run that may be in flight at once
MaxIssued == 2      \* cap of the per-id count of issued inserts
MaxPasses == 2      \* Updater passes (streams, pending run() timers) at once
MaxInflight == 2    \* "data" handlers of the Updater in flight at once
MaxCalls == 3       \* calls of anonymizeCustomer on one object

\* ------------------------------------------------------ program constants
AMinute == 60000            \* 60 * 1000

Ids == 1..MaxRecs
Times == 1..MaxTime
Names == {"ann", "bob"}
Procs == {1, 2}

\* --------------------------------------------------------------- records
\* hex(value): sha256, hex digest, first 8 characters.  A digest is a string
\* different from its input; distinct inputs of the model have distinct digests.
hex(value) == "#" \o value

\* The address of the generator's records; only the hashed parts matter.
Address(postcode) ==
  [line1 |-> "34801 Kurt Spur", line2 |-> "Suite 028", postcode |-> postcode,
   city |-> "city", state |-> "state", country |-> "CC"]

\* A source document.  email is the list of its "@"-separated parts.
Customer(id, name, t) ==
  [_id |-> id, firstName |-> name, lastName |-> "doe",
   email |-> <<name, "example.com">>, address |-> Address("12345"),
   createdAt |-> t]

\* email.split("@") destructured into [loginPart, hostPart], then
\* `${hex(loginPart)}@${hostPart}`: parts after the second are dropped and a
\* missing hostPart prints as "undefined".
anonymizeEmail(email) ==
  <<hex(email[1]), IF Len(email) >= 2 THEN email[2] ELSE "undefined">>

anonymizeCustomer(customer) ==
  [customer EXCEPT
     !.firstName = hex(customer.firstName),
     !.lastName = hex(customer.lastName),
     !.email = anonymizeEmail(customer.email),
     !.address = [customer.address EXCEPT
                    !.line1 = hex(customer.address.line1),
                    !.line2 = hex(customer.address.line2),
                    !.postcode = hex(customer.address.postcode)]]

\* A document as the generator makes it, with its postcode and email host.
CustomerAt(id, name, t, postcode, host) ==
  [Customer(id, name, t) EXCEPT !.email = <<name, host>>, !.address = Address(postcode)]

\* ------------------------------------------------------- store interface
\* Ascending by createdAt; documents with equal createdAt come in _id order.
Before(a, b) ==
  \/ a.createdAt < b.createdAt
  \/ a.createdAt = b.createdAt /\ a._id < b._id

RECURSIVE SortByCreatedAt(_)
SortByCreatedAt(docs) ==
  IF docs = {} THEN <<>>
  ELSE LET first == CHOOSE d \in docs : \A e \in docs \ {d} : Before(d, e)
       IN  <<first>> \o SortByCreatedAt(docs \ {first})

\* cursor.skip(n)
Skip(s, n) == IF n >= Len(s) THEN <<>> ELSE SubSeq(s, n + 1, Len(s))

\* cursor.limit(n): 0 is "no limit", a negative n limits to -n documents.
Limit(s, n) ==
  LET m == IF n < 0 THEN 0 - n ELSE n
  IN  IF m = 0 \/ m >= Len(s) THEN s ELSE SubSeq(s, 1, m)

\* find({createdAt: {$gt: gt}}).sort({createdAt: 1}).limit(limit).skip(skip)
FindNewer(coll, gt, limit, skip) ==
  Limit(Skip(SortByCreatedAt({d \in coll : d.createdAt > gt}), skip), limit)

\* findOne({_id: id}): a sequence of 0 or 1 documents
FindById(coll, id) ==
  IF \E d \in coll : d._id = id
  THEN <<CHOOSE d \in coll : d._id = id>> ELSE <<>>

\* findOne({}, {sort: [["createdAt", 1]]})
FindOldest(coll) ==
  IF coll = {} THEN <<>> ELSE <<SortByCreatedAt(coll)[1]>>

HasId(coll, id) == \E d \in coll : d._id = id

\* insertMany(docs), ordered: documents are inserted in order up to the first
\* one whose _id the collection already holds (duplicate key), where it throws.
RECURSIVE InsertedPrefix(_, _)
InsertedPrefix(coll, docs) ==
  IF docs = <<>> \/ HasId(coll, Head(docs)._id) THEN coll
  ELSE InsertedPrefix(coll \cup {Head(docs)}, Tail(docs))

\* A target with no unique index on _id: an insert never throws.
InsertNeverThrows(coll, docs) == FALSE

InsertThrows(coll, docs) ==
  \E i \in 1..Len(docs) :
    \/ HasId(coll, docs[i]._id)
    \/ \E j \in 1..(i - 1) : docs[j]._id = docs[i]._id

\* The _ids of the documents an insertMany(docs) put into the collection: all of
\* them when it did not throw, else those before the duplicate.
AcceptedIds(coll, docs) ==
  IF InsertThrows(coll, docs)
  THEN {d._id : d \in InsertedPrefix(coll, docs) \ coll}
  ELSE {docs[i]._id : i \in 1..Len(docs)}

\* updateOne({_id: id}, {$set: doc})
UpdateOne(coll, id, doc) ==
  {IF d._id = id THEN doc ELSE d : d \in coll}

\* Date.toISOString and new Date(rawPointer): the file holds the text of the
\* timestamp, milliseconds included.
toISOString(t) == [iso |-> t]
parseDate(raw) == raw.iso

\* ------------------------------------------------------------------ state
VARIABLES
  source,       \* the source collection
  target,       \* the target collection
  lock,         \* the .lock file: 0 when absent, else the process that created it
  pointerFile,  \* the .pointer file: <<>> when absent, else <<text>>
  argv,         \* argv[p]: process p was started with --full-reindex
  procPc,       \* procPc[p]: where process p is in run()
  sawLock,      \* sawLock[p]: what checkSync answered to process p at line 291
  rxQueue,      \* rxQueue[p]: what fullReindex's open cursor of p still holds
  rxLast,       \* rxLast[p]: fullReindex's lastCreatedAt: <<>> when null
  window,       \* Pursuer.window
  pointer,      \* Pursuer.pointer: <<>> when undefined, else <<time>>
  buffer,       \* Pursuer.buffer
  tk,           \* tk[t]: the t-th timer callback of Pursuer.run that is in flight
  streams,      \* streams[s]: the s-th target stream of the Updater
  cursor,       \* Updater.cursor: 0 when undefined, else the stream it belongs to
  timers,       \* pending setTimeout callbacks of Updater.run
  building,     \* buildStream calls waiting in "await this.cursor.close()"
  inflight,     \* the "data" handlers that are inside onData
  lastOnData,   \* how the last onData that got its findOne answer went on
  lastWrite,    \* the last write issued on the target: who, and was the lock held
  issued,       \* issued[id]: how often the Pursuer passed id to insertMany
  started,      \* the pointer the Pursuer first worked with, <<>> before that
  stored,       \* the source documents that existed when .pointer was last written
  heldBack,     \* the last timer callback of Pursuer.run found the lock
  insertedBy,   \* insertedBy[id]: who inserted a document with this _id into the target
  caught,       \* the _ids that were in Pursuer.buffer when a callback found the lock
  versions,     \* every document the source has held, in every form it had
  given,        \* the document a caller of anonymizeCustomer had: <<>> or <<document>>
  customer,     \* the object that caller passes to anonymizeCustomer, as it is now
  returned      \* what each call on that object returned, as it was on return

storeVars == <<source, target, lock, pointerFile>>
procVars == <<argv, procPc, sawLock, rxQueue, rxLast>>
pursuerVars == <<window, pointer, buffer, tk>>
updaterVars == <<streams, cursor, timers, building, inflight, lastOnData>>
ghostVars == <<lastWrite, issued, started, stored, heldBack, insertedBy, caught, versions>>
anonVars == <<given, customer, returned>>
vars == <<storeVars, procVars, pursuerVars, updaterVars, ghostVars, anonVars>>

\* Record that actor by inserted the documents ids.
Mark(by, ids, actor) ==
  [id \in DOMAIN by |-> IF id \in ids THEN by[id] \cup {actor} ELSE by[id]]

\* WithLock.locked: lockfile.checkSync(LOCKFILE)
locked == lock # 0

Ticks == 1..MaxTicks
IdleTick == [pc |-> "idle", bae |-> FALSE, gt |-> 0, limit |-> 0, skip |-> 0, docs |-> <<>>]
NoWrite == [by |-> "none", locked |-> FALSE]

\* The process whose Pursuer and Updater are running, if any.
Continuous == \E p \in Procs : procPc[p] = "continuous"

\* ------------------------------------------------------------- anonymizer
\* Nobody is calling anonymizeCustomer on an object of its own.
NoCall == given = <<>> /\ customer = <<>> /\ returned = <<>>

\* One call anonymizeCustomer(customer) on the caller's object: lines 77-83
\* assign the fields of the object it was given, line 84 returns that object.
CallAnonymize ==
  /\ customer # <<>>
  /\ Len(returned) < MaxCalls
  /\ customer' = <<anonymizeCustomer(customer[1])>>
  /\ returned' = Append(returned, customer'[1])
  /\ UNCHANGED <<storeVars, procVars, pursuerVars, updaterVars, ghostVars, given>>

\* ---------------------------------------------------------------- Pursuer
\* new Date() when loadPointer finds the source empty.
ClockValues == {AMinute + 1, AMinute + MaxTime}

RECURSIVE AnonymizeAll(_)
AnonymizeAll(docs) ==
  IF docs = <<>> THEN <<>>
  ELSE <<anonymizeCustomer(Head(docs))>> \o AnonymizeAll(Tail(docs))

\* Pursuer.loop from bufferAlreadyExists to the cursor: the query is built from
\* this.pointer, this.window and this.buffer as they are now and runs later.
CreateCursor(t, ptr) ==
  tk' = [tk EXCEPT ![t] =
           [pc |-> "query", bae |-> buffer # <<>>, gt |-> ptr,
            limit |-> window - Len(buffer), skip |-> Len(buffer), docs |-> <<>>]]

\* The timer callback of Pursuer.run, up to the first await that suspends it.
\* loadPointer reads the file synchronously when it exists.
TimerFire(t) ==
  /\ Continuous
  /\ tk[t].pc = "idle"
  /\ \A u \in Ticks : u < t => tk[u].pc # "idle"
  /\ heldBack' = locked
  /\ caught' = IF locked THEN caught \cup {buffer[i]._id : i \in 1..Len(buffer)} ELSE caught
  /\ IF locked
     THEN /\ pointer' = <<>>
          /\ UNCHANGED <<tk, started>>
     ELSE IF pointer # <<>>
     THEN /\ CreateCursor(t, pointer[1])
          /\ UNCHANGED <<pointer, started>>
     ELSE IF pointerFile # <<>>
     THEN /\ pointer' = <<parseDate(pointerFile[1])>>
          /\ CreateCursor(t, parseDate(pointerFile[1]))
          /\ started' = IF started = <<>> THEN pointer' ELSE started
     ELSE /\ tk' = [tk EXCEPT ![t].pc = "load"]
          /\ UNCHANGED <<pointer, started>>
  /\ UNCHANGED <<storeVars, procVars, window, buffer, updaterVars, lastWrite, issued, stored, anonVars, insertedBy, versions>>

\* Pursuer.loadPointer without a .pointer file, when its findOne answers.
LoadPointerDone(t) ==
  /\ tk[t].pc = "load"
  /\ \E now \in ClockValues :
       LET lastCustomer == FindOldest(source)
           base == IF lastCustomer # <<>> THEN lastCustomer[1].createdAt ELSE now
       IN  /\ pointer' = <<base - AMinute>>
           /\ CreateCursor(t, base - AMinute)
  /\ started' = IF started = <<>> THEN pointer' ELSE started
  /\ UNCHANGED <<storeVars, procVars, window, buffer, updaterVars, lastWrite, issued, stored, anonVars, heldBack, insertedBy, caught, versions>>

RECURSIVE CountIssued(_, _)
CountIssued(count, docs) ==
  IF docs = <<>> THEN count
  ELSE CountIssued(
         [count EXCEPT ![Head(docs)._id] =
            IF @ < MaxIssued THEN @ + 1 ELSE @], Tail(docs))

\* Pursuer.loop when the cursor has answered: fill the buffer, then either call
\* insertMany(this.buffer) or end the tick.
QueryDone(t) ==
  /\ tk[t].pc = "query"
  /\ LET found == FindNewer(source, tk[t].gt, tk[t].limit, tk[t].skip)
         filled == buffer \o AnonymizeAll(found)
     IN  /\ buffer' = filled
         /\ IF Len(filled) = window \/ tk[t].bae
            THEN /\ tk' = [tk EXCEPT ![t] = [IdleTick EXCEPT !.pc = "insert", !.docs = filled,
                                                               !.bae = tk[t].bae]]
                 /\ lastWrite' = [by |-> "pursuer", locked |-> locked]
                 /\ issued' = CountIssued(issued, filled)
            ELSE /\ tk' = [tk EXCEPT ![t] = IdleTick]
                 /\ UNCHANGED <<lastWrite, issued>>
  /\ UNCHANGED <<storeVars, procVars, window, pointer, updaterVars, started, stored, anonVars, heldBack, insertedBy, caught, versions>>

\* Pursuer.storePointer
storePointer(ptr) ==
  IF ptr = <<>> THEN UNCHANGED <<pointerFile, stored>>
  ELSE /\ pointerFile' = <<toISOString(ptr[1])>>
       /\ stored' = source

\* Pursuer.loop when insertMany has answered.  When it throws, loop() rejects
\* with the pointer and the buffer as they were.
InsertDone(t) ==
  /\ tk[t].pc = "insert"
  /\ target' = InsertedPrefix(target, tk[t].docs)
  /\ insertedBy' = Mark(insertedBy, AcceptedIds(target, tk[t].docs), "pursuer")
  /\ tk' = [tk EXCEPT ![t] = IdleTick]
  /\ IF InsertThrows(target, tk[t].docs)
     THEN UNCHANGED <<pointer, buffer, pointerFile, stored>>
     ELSE /\ pointer' = IF buffer # <<>> THEN <<buffer[Len(buffer)].createdAt>> ELSE pointer
          /\ storePointer(pointer')
          /\ buffer' = <<>>
  /\ UNCHANGED <<source, lock, procVars, window, updaterVars, lastWrite, issued, started, anonVars, heldBack, caught, versions>>

\* ---------------------------------------------------------------- Updater
Passes == 1..MaxPasses
NoStream == [pc |-> "none", queue |-> <<>>]

\* What may still call Updater.run: a stream that will emit "end", a
\* buildStream that will open a stream, a pending timer.
Tokens(strs, b, t) == Cardinality({s \in Passes : strs[s].pc # "none"}) + b + t

\* FindCursor.close() on the cursor of stream c: its stream stops reading.
CloseCursor(strs, c) ==
  IF c = 0 THEN strs
  ELSE [strs EXCEPT ![c].pc = IF @ \in {"query", "flow"} THEN "closed" ELSE @]

\* buildStream from "this.cursor = ..." on: a new cursor and its stream.
OpenStream(strs) ==
  LET s == CHOOSE x \in Passes : strs[x].pc = "none" /\ \A y \in Passes : y < x => strs[y].pc # "none"
  IN  /\ streams' = [strs EXCEPT ![s] = [pc |-> "query", queue |-> <<>>]]
      /\ cursor' = s

\* Updater.run, called with the streams as strs, b buildStream calls waiting
\* and t timers pending: arm the timer when locked, else buildStream up to its
\* "await this.cursor.close()" (which only the first call skips).
UpdaterRun(strs, b, t) ==
  IF locked
  THEN /\ timers' = t + 1
       /\ streams' = strs
       /\ building' = b
       /\ UNCHANGED cursor
  ELSE IF cursor # 0
  THEN /\ streams' = CloseCursor(strs, cursor)
       /\ building' = b + 1
       /\ timers' = t
       /\ UNCHANGED cursor
  ELSE /\ OpenStream(strs)
       /\ building' = b
       /\ timers' = t

\* buildStream resumes after "await this.cursor.close()".
BuildResume ==
  /\ building > 0
  /\ building' = building - 1
  /\ OpenStream(streams)
  /\ UNCHANGED <<storeVars, procVars, pursuerVars, timers, inflight, lastOnData, ghostVars, anonVars>>

\* The find({}).sort({createdAt: 1}) of a stream answers.
StreamAnswer(s) ==
  /\ streams[s].pc = "query"
  /\ streams' = [streams EXCEPT ![s] = [pc |-> "flow", queue |-> SortByCreatedAt(target)]]
  /\ UNCHANGED <<storeVars, procVars, pursuerVars, cursor, timers, building, inflight,
                 lastOnData, ghostVars, anonVars>>

\* A "data" event, lines 161-168, up to the handler's first await: either onData
\* starts with its findOne, or this.cursor is closed and run() arms the timer.
StreamData(s) ==
  /\ streams[s].pc = "flow"
  /\ streams[s].queue # <<>>
  /\ LET targetCustomer == Head(streams[s].queue)
         rest == [streams EXCEPT ![s].queue = Tail(@)]
     IN  IF ~locked
         THEN /\ inflight' = inflight \cup {[handed |-> targetCustomer, src |-> <<>>, pc |-> "find"]}
              /\ Cardinality(inflight') <= MaxInflight
              /\ streams' = rest
              /\ UNCHANGED <<cursor, timers, building>>
         ELSE /\ Tokens(streams, building, timers) < MaxPasses
              /\ UpdaterRun(CloseCursor(rest, cursor), building, timers)
              /\ UNCHANGED inflight
  /\ UNCHANGED <<storeVars, procVars, pursuerVars, lastOnData, ghostVars, anonVars>>

\* An "end" event, lines 170-172: of a stream that is read to its end or whose
\* cursor was closed.
StreamEnd(s) ==
  /\ \/ streams[s].pc = "flow" /\ streams[s].queue = <<>>
     \/ streams[s].pc = "closed"
  /\ UpdaterRun([streams EXCEPT ![s] = NoStream], building, timers)
  /\ UNCHANGED <<storeVars, procVars, pursuerVars, inflight, lastOnData, ghostVars, anonVars>>

\* An "error" event, lines 174-176: logged, nothing else.
StreamError(s) ==
  /\ streams[s].pc \in {"query", "flow"}
  /\ streams' = [streams EXCEPT ![s] = NoStream]
  /\ UNCHANGED <<storeVars, procVars, pursuerVars, cursor, timers, building, inflight,
                 lastOnData, ghostVars, anonVars>>

\* The setTimeout callback of run, line 196.
TimerExpire ==
  /\ timers > 0
  /\ UpdaterRun(streams, building, timers - 1)
  /\ UNCHANGED <<storeVars, procVars, pursuerVars, inflight, lastOnData, ghostVars, anonVars>>

\* onData without line 185: updateOne also for a document that is up to date.
OnDataFoundNoCompare(h) ==
  /\ h \in inflight
  /\ h.pc = "find"
  /\ LET sourceCustomer == FindById(source, h.handed._id)
     IN  IF sourceCustomer = <<>>
         THEN /\ inflight' = inflight \ {h}
              /\ lastOnData' = "missing"
              /\ UNCHANGED lastWrite
         ELSE /\ inflight' = (inflight \ {h}) \cup
                               {[handed |-> h.handed, src |-> sourceCustomer, pc |-> "update"]}
              /\ lastOnData' = "update"
              /\ lastWrite' = [by |-> "updater", locked |-> locked]
  /\ UNCHANGED <<storeVars, procVars, pursuerVars, streams, cursor, timers, building,
                 issued, started, stored, anonVars, heldBack, insertedBy, caught, versions>>

\* Updater.onData when its findOne has answered: return when the source
\* document is gone or the target document is up to date, else call updateOne.
OnDataFound(h) ==
  /\ h \in inflight
  /\ h.pc = "find"
  /\ LET sourceCustomer == FindById(source, h.handed._id)
     IN  IF sourceCustomer = <<>>
         THEN /\ inflight' = inflight \ {h}
              /\ lastOnData' = "missing"
              /\ UNCHANGED lastWrite
         ELSE IF h.handed = anonymizeCustomer(sourceCustomer[1])
         THEN /\ inflight' = inflight \ {h}
              /\ lastOnData' = "equal"
              /\ UNCHANGED lastWrite
         ELSE /\ inflight' = (inflight \ {h}) \cup
                               {[handed |-> h.handed, src |-> sourceCustomer, pc |-> "update"]}
              /\ lastOnData' = "update"
              /\ lastWrite' = [by |-> "updater", locked |-> locked]
  /\ UNCHANGED <<storeVars, procVars, pursuerVars, streams, cursor, timers, building,
                 issued, started, stored, anonVars, heldBack, insertedBy, caught, versions>>

\* onData passing the object anonymizeCustomer has changed through it again.
OnDataUpdatedTwice(h) ==
  /\ h \in inflight
  /\ h.pc = "update"
  /\ target' = UpdateOne(target, h.handed._id, anonymizeCustomer(anonymizeCustomer(h.src[1])))
  /\ inflight' = inflight \ {h}
  /\ UNCHANGED <<source, lock, pointerFile, procVars, pursuerVars, streams, cursor, timers,
                 building, lastOnData, ghostVars, anonVars>>

\* Updater.onData when its updateOne has answered.
OnDataUpdated(h) ==
  /\ h \in inflight
  /\ h.pc = "update"
  /\ target' = UpdateOne(target, h.handed._id, anonymizeCustomer(h.src[1]))
  /\ inflight' = inflight \ {h}
  /\ UNCHANGED <<source, lock, pointerFile, procVars, pursuerVars, streams, cursor, timers,
                 building, lastOnData, ghostVars, anonVars>>

\* What the Updater does while no run() finds the lock: no timer is armed.
UpdaterStep ==
  \/ BuildResume
  \/ \E s \in Passes : StreamAnswer(s) \/ StreamData(s) \/ StreamEnd(s)
  \/ \E h \in inflight : OnDataFound(h) \/ OnDataUpdated(h)

\* ------------------------------------------------- run() and fullReindex
\* run(), line 291 to the branch taken: with the flag and no lock file the
\* process goes on to lockSync, else it constructs Pursuer and Updater and calls
\* their run (the Pursuer's only sets the interval).  One continuous process
\* is modelled.
Start(p) ==
  /\ procPc[p] = "off"
  /\ sawLock' = [sawLock EXCEPT ![p] = locked]
  /\ IF argv[p] /\ ~locked
     THEN procPc' = [procPc EXCEPT ![p] = "acquire"]
          /\ UNCHANGED <<streams, cursor, timers, building>>
     ELSE /\ ~Continuous
          /\ procPc' = [procPc EXCEPT ![p] = "continuous"]
          /\ UpdaterRun(streams, building, timers)
  /\ UNCHANGED <<storeVars, argv, rxQueue, rxLast, pursuerVars, inflight, lastOnData, ghostVars, anonVars>>

\* lockSync as a plain write of the file, not an exclusive create.
lockSyncOverwrite(p) ==
  /\ lock' = p
  /\ procPc' = [procPc EXCEPT ![p] = "locked"]

\* lockfile.lockSync(LOCKFILE): creates the file exclusively, throws when it
\* exists; the throw rejects run().
lockSync(p) ==
  IF lock = 0
  THEN /\ lock' = p
       /\ procPc' = [procPc EXCEPT ![p] = "locked"]
  ELSE /\ procPc' = [procPc EXCEPT ![p] = "failed"]
       /\ UNCHANGED lock

Acquire(p) ==
  /\ procPc[p] = "acquire"
  /\ lockSync(p)
  /\ UNCHANGED <<source, target, pointerFile, argv, sawLock, rxQueue, rxLast, pursuerVars, updaterVars, ghostVars, anonVars>>

\* fullReindex: the cursor over the whole target answers.
Phase1Open(p) ==
  /\ procPc[p] = "locked"
  /\ rxQueue' = [rxQueue EXCEPT ![p] = SortByCreatedAt(target)]
  /\ rxLast' = [rxLast EXCEPT ![p] = <<>>]
  /\ procPc' = [procPc EXCEPT ![p] = "phase1"]
  /\ UNCHANGED <<storeVars, argv, sawLock, pursuerVars, updaterVars, ghostVars, anonVars>>

\* fullReindex: one round of the first loop.
Phase1Step(p) ==
  /\ procPc[p] = "phase1"
  /\ rxQueue[p] # <<>>
  /\ LET targetCustomer == Head(rxQueue[p])
         sourceCustomer == FindById(source, targetCustomer._id)
     IN  /\ rxQueue' = [rxQueue EXCEPT ![p] = Tail(@)]
         /\ IF sourceCustomer = <<>>
            THEN UNCHANGED <<rxLast, target, lastWrite>>
            ELSE /\ rxLast' = [rxLast EXCEPT ![p] = <<targetCustomer.createdAt>>]
                 /\ IF targetCustomer = anonymizeCustomer(sourceCustomer[1])
                    THEN UNCHANGED <<target, lastWrite>>
                    ELSE /\ target' = UpdateOne(target, targetCustomer._id,
                                                anonymizeCustomer(sourceCustomer[1]))
                         /\ lastWrite' = [by |-> "reindex", locked |-> locked]
  /\ UNCHANGED <<source, lock, pointerFile, argv, procPc, sawLock, pursuerVars, updaterVars,
                 issued, started, stored, anonVars, heldBack, insertedBy, caught, versions>>

\* fullReindex between the loops: derive the pointer when there is none, return
\* when the source is empty, else open the cursor over the newer documents.
Phase1End(p) ==
  /\ procPc[p] = "phase1"
  /\ rxQueue[p] = <<>>
  /\ LET firstCustomer == FindOldest(source)
         lastCreatedAt ==
           IF rxLast[p] # <<>> THEN rxLast[p]
           ELSE IF firstCustomer # <<>> THEN <<firstCustomer[1].createdAt - AMinute>>
           ELSE <<>>
     IN  IF lastCreatedAt = <<>>
         THEN /\ procPc' = [procPc EXCEPT ![p] = "returned"]
              /\ UNCHANGED <<rxQueue, rxLast>>
         ELSE /\ procPc' = [procPc EXCEPT ![p] = "phase2"]
              /\ rxLast' = [rxLast EXCEPT ![p] = lastCreatedAt]
              /\ rxQueue' = [rxQueue EXCEPT ![p] =
                               SortByCreatedAt({d \in source : d.createdAt > lastCreatedAt[1]})]
  /\ UNCHANGED <<storeVars, argv, sawLock, pursuerVars, updaterVars, ghostVars, anonVars>>

\* fullReindex: one round of the second loop; insertOne throws on a duplicate
\* _id, which rejects run().
Phase2Step(p) ==
  /\ procPc[p] = "phase2"
  /\ rxQueue[p] # <<>>
  /\ LET newTargetCustomer == anonymizeCustomer(Head(rxQueue[p]))
     IN  /\ lastWrite' = [by |-> "reindex", locked |-> locked]
         /\ IF HasId(target, newTargetCustomer._id)
            THEN /\ procPc' = [procPc EXCEPT ![p] = "failed"]
                 /\ UNCHANGED <<target, rxQueue, rxLast, insertedBy>>
            ELSE /\ target' = target \cup {newTargetCustomer}
                 /\ insertedBy' = Mark(insertedBy, {newTargetCustomer._id}, "reindex")
                 /\ rxQueue' = [rxQueue EXCEPT ![p] = Tail(@)]
                 /\ rxLast' = [rxLast EXCEPT ![p] = <<newTargetCustomer.createdAt>>]
                 /\ UNCHANGED procPc
  /\ UNCHANGED <<source, lock, pointerFile, argv, sawLock, pursuerVars, updaterVars,
                 issued, started, stored, anonVars, heldBack, caught, versions>>

\* fullReindex: "Store new pointer".
Phase3(p) ==
  /\ procPc[p] = "phase2"
  /\ rxQueue[p] = <<>>
  /\ pointerFile' = <<toISOString(rxLast[p][1])>>
  /\ stored' = source
  /\ procPc' = [procPc EXCEPT ![p] = "returned"]
  /\ UNCHANGED <<source, target, lock, argv, sawLock, rxQueue, rxLast, pursuerVars, updaterVars,
                 lastWrite, issued, started, anonVars, heldBack, insertedBy, caught, versions>>

\* run(), lines 294-295: unlockSync removes the file, then process.exit(0).
Release(p) ==
  /\ procPc[p] = "returned"
  /\ lock' = 0
  /\ procPc' = [procPc EXCEPT ![p] = "exited"]
  /\ UNCHANGED <<source, target, pointerFile, argv, sawLock, rxQueue, rxLast, pursuerVars, updaterVars, ghostVars, anonVars>>

\* A store query or write of fullReindex fails: fullReindex throws, run()
\* rejects at line 293 and the rejection is logged by console.debug.
ReindexError(p) ==
  /\ procPc[p] \in {"locked", "phase1", "phase2"}
  /\ procPc' = [procPc EXCEPT ![p] = "failed"]
  /\ UNCHANGED <<storeVars, argv, sawLock, rxQueue, rxLast, pursuerVars, updaterVars, ghostVars, anonVars>>

ReindexStep(p) ==
  \/ Acquire(p) \/ Phase1Open(p) \/ Phase1Step(p) \/ Phase1End(p)
  \/ Phase2Step(p) \/ Phase3(p) \/ Release(p)

InReindex(p) == procPc[p] \in {"locked", "phase1", "phase2", "returned"}

\* ------------------------------------------------------------ environment
\* The generator (or anyone) inserts a document into the source.
SourceInsert(id, name, t) ==
  /\ ~HasId(source, id)
  /\ ~HasId(target, id)
  /\ source' = source \cup {Customer(id, name, t)}
  /\ versions' = versions \cup source'
  /\ UNCHANGED <<target, lock, pointerFile, procVars, pursuerVars, updaterVars, lastWrite,
                 issued, started, stored, heldBack, insertedBy, caught, anonVars>>

\* Someone edits a source document.
SourceEdit(id, name) ==
  /\ \E d \in source :
       /\ d._id = id
       /\ d.firstName # name
       /\ source' = (source \ {d}) \cup {Customer(id, name, d.createdAt)}
  /\ versions' = versions \cup source'
  /\ UNCHANGED <<target, lock, pointerFile, procVars, pursuerVars, updaterVars, lastWrite,
                 issued, started, stored, heldBack, insertedBy, caught, anonVars>>

\* Someone deletes a source document.
SourceDelete(id) ==
  /\ \E d \in source : d._id = id /\ source' = source \ {d}
  /\ UNCHANGED <<target, lock, pointerFile, procVars, pursuerVars, updaterVars, ghostVars, anonVars>>

\* ---------------------------------------------------------- specifications
\* The Forward Syncer alone: one process in continuous mode, nobody takes the
\* lock, documents keep arriving in the source.
InitSource ==
  \E ids \in SUBSET Ids : \E ts \in [Ids -> Times] :
    source = {Customer(id, "ann", ts[id]) : id \in ids}

InitRun ==
  /\ lock = 0
  /\ pointerFile = <<>>
  /\ argv = [p \in Procs |-> p # 1]
  /\ procPc = [p \in Procs |-> IF p = 1 THEN "continuous" ELSE "off"]
  /\ sawLock = [p \in Procs |-> FALSE]
  /\ rxQueue = [p \in Procs |-> <<>>]
  /\ rxLast = [p \in Procs |-> <<>>]
  /\ window \in 1..MaxWindow
  /\ pointer = <<>>
  /\ buffer = <<>>
  /\ tk = [t \in Ticks |-> IdleTick]
  /\ streams = [s \in Passes |-> IF s = 1 THEN [pc |-> "query", queue |-> <<>>] ELSE NoStream]
  /\ cursor = 1
  /\ timers = 0
  /\ building = 0
  /\ inflight = {}
  /\ lastOnData = "none"
  /\ lastWrite = NoWrite
  /\ issued = [id \in Ids |-> 0]
  /\ started = <<>>
  /\ stored = {}
  /\ heldBack = FALSE
  /\ insertedBy = [id \in Ids |-> {}]
  /\ caught = {}
  /\ versions = source

InitForward == InitSource /\ target = {} /\ InitRun /\ NoCall

PursuerStep ==
  \E t \in Ticks : TimerFire(t) \/ LoadPointerDone(t) \/ QueryDone(t) \/ InsertDone(t)

Arrival == \E id \in Ids, t \in Times : SourceInsert(id, "ann", t)

Edit == \E id \in Ids, name \in Names : SourceEdit(id, name)

Delete == \E id \in Ids : SourceDelete(id)

NextForward == PursuerStep \/ Arrival

SpecForward == InitForward /\ [][NextForward]_vars

\* The same with a static source and ticks that end within the timer period,
\* every started tick running to its end.
SerialTick == \E t \in Ticks : (\A u \in Ticks : tk[u].pc = "idle") /\ TimerFire(t)

TickProgress == \E t \in Ticks : LoadPointerDone(t) \/ QueryDone(t) \/ InsertDone(t)

NextSerial == SerialTick \/ TickProgress

FairSerial ==
  InitForward /\ [][NextSerial]_vars /\ WF_vars(SerialTick) /\ WF_vars(TickProgress)

\* Ticks that end within the timer period, while documents keep arriving.
NextArrival == NextSerial \/ Arrival

SpecArrival == InitForward /\ [][NextArrival]_vars

\* Continuous mode in process 1, whose ticks may overlap, and a full reindex
\* started in process 2 at any moment, over a static source.
NextOverlap ==
  \/ PursuerStep
  \/ \E p \in Procs : Start(p)
  \/ \E p \in Procs : ReindexStep(p)

SpecOverlap == InitForward /\ [][NextOverlap]_vars

\* Continuous mode in process 1 and a full reindex started in process 2 at
\* any moment; source documents may be deleted; ticks end within the timer
\* period.
InitLock ==
  /\ InitForward
  /\ source # {}

NextLock ==
  \/ SerialTick
  \/ TickProgress
  \/ \E p \in Procs : Start(p)
  \/ \E p \in Procs : ReindexStep(p)
  \/ Delete

SpecLock == InitLock /\ [][NextLock]_vars

\* The Reconciler over a target that holds the anonymized form of the source:
\* documents are edited and deleted in the source and streams may fail; nobody
\* takes the lock.
InitUpdater ==
  /\ InitSource
  /\ source # {}
  /\ target = {anonymizeCustomer(d) : d \in source}
  /\ InitRun
  /\ NoCall

Failure == \E s \in Passes : StreamError(s)

NextUpdater == UpdaterStep \/ Failure \/ Edit \/ Delete

SpecUpdater == InitUpdater /\ [][NextUpdater]_vars

SourceDocs == {Customer(id, name, t) : id \in Ids, name \in Names, t \in Times}
TargetDocs == {anonymizeCustomer(d) : d \in SourceDocs}

\* The event loop runs every callback that is due: each stream's events, each
\* resumed buildStream, each answered findOne and updateOne.
UpdaterFairness ==
  /\ WF_vars(BuildResume)
  /\ \A s \in Passes : WF_vars(StreamAnswer(s) \/ StreamData(s) \/ StreamEnd(s))
  /\ \A d \in TargetDocs :
       WF_vars(OnDataFound([handed |-> d, src |-> <<>>, pc |-> "find"]))
  /\ \A d \in TargetDocs, e \in SourceDocs :
       WF_vars(OnDataUpdated([handed |-> d, src |-> <<e>>, pc |-> "update"]))

FairUpdater == SpecUpdater /\ UpdaterFairness

\* Two processes started with --full-reindex at any moment, over a target that
\* holds part of the source; documents arrive and a store operation of
\* fullReindex may fail.  A process that takes the else branch of run() runs
\* the Pursuer.
InitStartup ==
  /\ InitSource
  /\ \E docs \in SUBSET source : target = {anonymizeCustomer(d) : d \in docs}
  /\ lock = 0
  /\ pointerFile = <<>>
  /\ argv = [p \in Procs |-> TRUE]
  /\ procPc = [p \in Procs |-> "off"]
  /\ sawLock = [p \in Procs |-> FALSE]
  /\ rxQueue = [p \in Procs |-> <<>>]
  /\ rxLast = [p \in Procs |-> <<>>]
  /\ window \in 1..MaxWindow
  /\ pointer = <<>>
  /\ buffer = <<>>
  /\ tk = [t \in Ticks |-> IdleTick]
  /\ streams = [s \in Passes |-> NoStream]
  /\ cursor = 0
  /\ timers = 0
  /\ building = 0
  /\ inflight = {}
  /\ lastOnData = "none"
  /\ lastWrite = NoWrite
  /\ issued = [id \in Ids |-> 0]
  /\ started = <<>>
  /\ stored = {}
  /\ heldBack = FALSE
  /\ insertedBy = [id \in Ids |-> {}]
  /\ caught = {}
  /\ versions = source
  /\ NoCall

NextStartup ==
  \/ \E p \in Procs : Start(p)
  \/ \E p \in Procs : ReindexStep(p)
  \/ \E p \in Procs : ReindexError(p)
  \/ SerialTick
  \/ TickProgress
  \/ Arrival

SpecStartup == InitStartup /\ [][NextStartup]_vars

\* The anonymizer alone: a caller holds a document and calls anonymizeCustomer
\* on it, more than once.
Postcodes == {"12345", "54321"}
Hosts == {"example.com", "mail.org"}

InitAnonymize ==
  /\ source = {}
  /\ target = {}
  /\ InitRun
  /\ \E id \in Ids, name \in Names, t \in Times, postcode \in Postcodes, host \in Hosts :
       given = <<CustomerAt(id, name, t, postcode, host)>>
  /\ customer = given
  /\ returned = <<>>

NextAnonymize == CallAnonymize

SpecAnonymize == InitAnonymize /\ [][NextAnonymize]_vars

\* Everything together: process 1 in continuous mode with its Pursuer (ticks
\* within the timer period) and its Updater, a full reindex started in process 2
\* at any moment, and a source document that is renamed once.
InitAll ==
  /\ source = {Customer(id, "ann", id) : id \in Ids}
  /\ target = {}
  /\ InitRun
  /\ NoCall

Rename == SourceEdit(1, "bob")

NextAll ==
  \/ SerialTick
  \/ TickProgress
  \/ UpdaterStep
  \/ TimerExpire
  \/ \E p \in Procs : Start(p)
  \/ \E p \in Procs : ReindexStep(p)
  \/ Rename

SpecAll == InitAll /\ [][NextAll]_vars

\* ------------------------------------------------------------------ claims
\* C1: neither the Pursuer nor the Updater issues a write on the target in a
\* state where the lock is held.
C1_LockExclusivity ==
  lastWrite.by \in {"pursuer", "updater"} => ~lastWrite.locked

\* C2: in a continuous-mode run the value in .pointer never decreases: every
\* write of it stores a value at least the one stored before.
C2_CheckpointMonotone ==
  [][(pointerFile # <<>> /\ pointerFile' # <<>>)
       => parseDate(pointerFile'[1]) >= parseDate(pointerFile[1])]_vars

\* C6: a process started with --full-reindex while the lock file exists exits
\* at once: it starts neither the Pursuer nor the Updater and touches neither
\* collection nor .pointer.
C6_ExitsWhenLocked ==
  \A p \in Procs : (argv[p] /\ sawLock[p]) => procPc[p] = "exited"

\* C7: a process whose run() has ended, by process.exit or by the rejection of
\* a failed fullReindex, does not leave the lock it acquired behind.
C7_LockReleased ==
  \A p \in Procs : procPc[p] \in {"exited", "failed"} => lock # p

\* C8: at most one process is in a full reindex, it holds the lock from before
\* its first target access until after its .pointer write, and a process that
\* found the lock taken does no reindex work.
C8_MutualExclusion ==
  /\ \A p, q \in Procs : (InReindex(p) /\ InReindex(q)) => p = q
  /\ \A p \in Procs : InReindex(p) => lock = p
  /\ \A p \in Procs : (procPc[p] = "failed" /\ lock # p) => rxQueue[p] = <<>> /\ rxLast[p] = <<>>

\* C8 happens: both processes passed the check of line 291, one acquired the
\* lock and is copying, the other failed in lockSync.
C8_Witness ==
  \E p, q \in Procs :
    /\ p # q
    /\ procPc[p] = "phase2" /\ lock = p /\ rxQueue[p] # <<>>
    /\ procPc[q] = "failed" /\ ~sawLock[q]

\* C9: the Reconciler calls updateOne for no target document that equals the
\* anonymized form of the source document it looked up, and for none whose
\* source document is gone.
C9_EqualityShortCircuit ==
  \A h \in inflight :
    h.pc = "update" =>
      /\ h.src # <<>>
      /\ h.src[1]._id = h.handed._id
      /\ h.handed # anonymizeCustomer(h.src[1])

\* C9 happens: a handler found its document up to date, or its source document
\* gone, and returned without a write while the target was never written.
C9_Witness ==
  /\ lastOnData \in {"equal", "missing"}
  /\ lastWrite.by = "none"
  /\ inflight = {}

\* C10: when a source document stays as it is from some point on and the lock
\* stays free from some point on, its target document eventually is, and
\* stays, the anonymized form of it.
C10_Convergence ==
  \A d \in SourceDocs :
    (<>[](d \in source) /\ <>[](~locked))
      => <>[](\A t \in target : t._id = d._id => t = anonymizeCustomer(d))

\* C3: with no lock contention and fair ticks, every source document whose
\* createdAt is greater than the checkpoint the run started with eventually
\* is in the target.
C3_Completeness ==
  \A id \in Ids :
    (started # <<>> /\ \E d \in source : d._id = id /\ d.createdAt > started[1])
      ~> HasId(target, id)

C5_CheckpointMeaning ==
  pointerFile # <<>> =>
    \A d \in stored :
      (started[1] < d.createdAt /\ d.createdAt <= parseDate(pointerFile[1]))
        => HasId(target, d._id)

\* C11: a call of the anonymizer leaves the document it was given as it was,
\* and every call on the same document returns the same result.
C11_AnonymizerPurity ==
  returned # <<>> =>
    /\ customer = given
    /\ \A i \in 1..Len(returned) : returned[i] = returned[1]

\* C12: a fullReindex that returns without an error has, in the step in which
\* it returns, written .pointer with its final pointer: the createdAt of the
\* last document phase 2 inserted, or the pointer phase 2 started from.
C12_ReindexStoresPointer ==
  [][\A p \in Procs :
       (procPc[p] # "returned" /\ procPc'[p] = "returned")
         => /\ rxLast'[p] # <<>>
            /\ pointerFile' = <<toISOString(rxLast'[p][1])>>]_vars

\* C13: a tick that started with an empty buffer and fetched fewer documents
\* than the window issues no insert; the insertMany of a tick that started with
\* a non-empty buffer puts the whole buffer into the target, empties the buffer
\* and leaves in .pointer the createdAt of the last document it flushed.
C13_PartialBatchFlush ==
  [][\A t \in Ticks :
       /\ (/\ tk[t].pc = "query" /\ tk'[t].pc # "query" /\ ~tk[t].bae
           /\ Len(buffer') > Len(buffer) /\ Len(buffer') - Len(buffer) < window)
            => (tk'[t].pc = "idle" /\ target' = target /\ pointerFile' = pointerFile)
       /\ (tk[t].pc = "insert" /\ tk[t].bae /\ tk'[t].pc = "idle")
            => /\ \A i \in 1..Len(tk[t].docs) : tk[t].docs[i] \in target'
               /\ buffer' = <<>>
               /\ pointerFile' = <<toISOString(tk[t].docs[Len(tk[t].docs)].createdAt)>>]_vars

\* C14: the timer callback that finds the lock writes nothing and drops
\* this.pointer; the first callback after it that finds the lock free builds
\* its query from the value in .pointer.
C14_ReloadAfterLock ==
  [][/\ (~heldBack /\ heldBack')
          => (pointer' = <<>> /\ target' = target /\ pointerFile' = pointerFile
              /\ lastWrite' = lastWrite)
     /\ \A t \in Ticks :
          (heldBack /\ ~heldBack' /\ pointerFile # <<>> /\ tk[t] # tk'[t])
            => (tk'[t].pc = "query" /\ tk'[t].gt = parseDate(pointerFile[1]))]_vars

Flushed(t, value) ==
  /\ tk[t].pc = "insert"
  /\ tk'[t].pc = "idle"
  /\ ~InsertThrows(target, tk[t].docs)
  /\ value = <<tk[t].docs[Len(tk[t].docs)].createdAt>>

\* C16: the Pursuer's pointer goes from one value to another (other than by
\* loadPointer), and .pointer is written, only in the step in which an
\* insertMany of the same tick succeeded,
\* and then to the createdAt of the last document of the batch it flushed; an
\* insertMany that throws leaves pointer, .pointer and buffer as they were.
C16_AdvanceAfterFlush ==
  [][/\ (/\ pointer # <<>> /\ pointer' # <<>> /\ pointer' # pointer
         /\ \A t \in Ticks : tk[t].pc = "load" => tk'[t].pc = "load")
          => \E t \in Ticks : Flushed(t, pointer')
     /\ pointerFile' # pointerFile
          => \E t \in Ticks :
               Flushed(t, pointer') /\ pointerFile' = <<toISOString(pointer'[1])>>
     /\ \A t \in Ticks :
          (tk[t].pc = "insert" /\ tk'[t].pc = "idle" /\ InsertThrows(target, tk[t].docs))
            => (pointer' = pointer /\ pointerFile' = pointerFile /\ buffer' = buffer)]_vars

\* C17: the Updater is never left with nothing that will call run() again: it
\* always has a stream that will report its end, a buildStream about to open
\* one, or a pending timer.
C17_NeverStopped == Tokens(streams, building, timers) >= 1

\* C18: the Pursuer's storePointer writes .pointer in no step in which the
\* lock is held.
C18_NoPointerWriteWhileLocked ==
  [][\A t \in Ticks :
       (/\ tk[t].pc = "insert" /\ tk'[t].pc = "idle"
        /\ ~InsertThrows(target, tk[t].docs) /\ pointer' # <<>>)
         => ~locked]_vars

\* t is what the anonymizer makes of d: same _id and createdAt, the digests of
\* the names, of the email's part before "@", of line1, line2 and postcode, the
\* rest as it is in d.
AnonymizedOnce(t, d) ==
  /\ t._id = d._id
  /\ t.createdAt = d.createdAt
  /\ t.firstName = hex(d.firstName)
  /\ t.lastName = hex(d.lastName)
  /\ t.email = <<hex(d.email[1]), d.email[2]>>
  /\ t.address.line1 = hex(d.address.line1)
  /\ t.address.line2 = hex(d.address.line2)
  /\ t.address.postcode = hex(d.address.postcode)
  /\ t.address.city = d.address.city
  /\ t.address.state = d.address.state
  /\ t.address.country = d.address.country

\* C19: every document of the target is the once-anonymized form of a document
\* the source has held.
C19_TargetAnonymized ==
  \A t \in target : \E d \in versions : AnonymizedOnce(t, d)

\* C19 happens: the Pursuer and fullReindex have each inserted a document and
\* the Updater has rewritten one after its source document was renamed.
C19_Witness ==
  /\ \E id \in Ids : "pursuer" \in insertedBy[id]
  /\ \E id \in Ids : "reindex" \in insertedBy[id]
  /\ lastOnData = "update"
  /\ inflight = {}
  /\ \E t \in target : t.firstName = hex("bob")

\* The streams of the Updater that are being read.
OpenStreams == {s \in Passes : streams[s].pc \in {"query", "flow"}}

\* C20: the Updater has at most one stream being read and at most one pending
\* run() timer.
C20_SingleStream ==
  /\ Cardinality(OpenStreams) <= 1
  /\ timers <= 1

Init == InitForward

Next == NextForward

Spec == Init /\ [][Next]_vars
====
